---- MODULE Spec2Model ----
(***************************************************************************)
(* Model of the Go backend of the Molecule schema compiler                 *)
(* (tools/codegen/src/generator/languages/go/generator.rs).                *)
(*                                                                         *)
(* The generator emits, per schema type, a constructor New<T>, a validating*)
(* decoder <T>FromSlice(slice, compatible) and accessors.  The model       *)
(* executes the emitted Go statements over byte sequences: a byte is a     *)
(* number 0..255, a []byte is a sequence of bytes, Go's zero-based         *)
(* s[start:end] is Slice(s, start, end).  A slice expression or an index   *)
(* outside the slice is the Go run-time panic; input slices are taken with *)
(* cap(slice) = len(slice).                                                *)
(*                                                                         *)
(* TLC integers are 32-bit signed, so header words are drawn with a top    *)
(* byte below 0x80 and the one uint32 product that can wrap                *)
(* (item_size*itemCount) is computed on 16-bit limbs.                      *)
(***************************************************************************)
EXTENDS Integers, Sequences, FiniteSets, TLC

VARIABLES
    typ,        \* name of the schema type whose generated code is called
    slice,      \* the []byte handed to <T>FromSlice (or built by New<T>)
    compatible, \* the decoder's compatibility flag
    vec,        \* the children handed to New<T> (<<>> when decoding raw input)
    encoded,    \* TRUE when slice was produced by New<T>
    pc,         \* "new" -> "input" -> "decoded" -> "accessed"
    ret,        \* what <T>FromSlice returned
    index,      \* the argument of the accessor that was called
    got         \* what the accessor returned

vars == <<typ, slice, compatible, vec, encoded, pc, ret, index, got>>

----------------------------------------------------------------------------
(* Bounds of the model.                                                    *)

MaxWords == 3   \* header-unit words following the first word of an input slice
MaxItems == 3   \* children handed to NewDynVec
MaxIndex == 3   \* largest index handed to Get

----------------------------------------------------------------------------
(* Go primitives.                                                          *)

HeaderSizeUint == 4

Min(S) == CHOOSE x \in S : \A y \in S : x <= y

At(s, i) == s[i + 1]                    \* zero-based s[i]

InBounds(s, start, end) == start <= end /\ end <= Len(s)

Slice(s, start, end) == SubSeq(s, start + 1, end)        \* s[start:end]

SliceFrom(s, start) == SubSeq(s, start + 1, Len(s))      \* s[start:]

\* packNumber: a Number as 4 little-endian bytes.
packNumber(n) ==
    << n % 256, (n \div 256) % 256, (n \div 65536) % 256, (n \div 16777216) % 256 >>

\* unpackNumber: the little-endian value of the first 4 bytes (needs Len(b) >= 4).
unpackNumber(b) == b[1] + 256 * b[2] + 65536 * b[3] + 16777216 * b[4]

RECURSIVE Concat(_)
Concat(ss) == IF ss = <<>> THEN <<>> ELSE Head(ss) \o Concat(Tail(ss))

\* uint32 product k*n (k < 2^15) as 16-bit limbs <<hi, lo>>, wrapping at 2^32.
MulU32(k, n) ==
    LET lo == (n % 65536) * k
        hi == ((n \div 65536) * k + lo \div 65536) % 65536
    IN  << hi, lo % 65536 >>

----------------------------------------------------------------------------
(* Return values.  A decoder returns (view, err): a view is modelled as    *)
(* the one-element sequence holding its inner bytes, nil as <<>>.          *)

NoErr == [kind |-> "", name |-> "", detail |-> ""]

ErrMsg(kind, name, detail) == [kind |-> kind, name |-> name, detail |-> detail]

Ok(inner) == [view |-> << inner >>, err |-> NoErr, panic |-> FALSE]

Err(e) == [view |-> <<>>, err |-> e, panic |-> FALSE]

Panic == [view |-> <<>>, err |-> NoErr, panic |-> TRUE]

Nil == [view |-> <<>>, err |-> NoErr, panic |-> FALSE]   \* a nil pointer, no error

IsOk(r) == ~r.panic /\ r.err = NoErr /\ r.view # <<>>

IsErr(r) == ~r.panic /\ r.err # NoErr

\* `_, err := XFromSlice(...); if err != nil { return nil, err }`
Propagate(r) == IF r.panic THEN Panic ELSE Err(r.err)

----------------------------------------------------------------------------
(* The verified schema: the type nodes the generators read.                *)

Node(kind, inner_typ, item_count, item_size, total_size, inner, field_size) ==
    [kind |-> kind, typ |-> inner_typ, item_count |-> item_count,
     item_size |-> item_size, total_size |-> total_size, inner |-> inner,
     field_size |-> field_size]

Schema ==
    [n \in {"Byte4", "Pair", "Rec", "Bytes", "Byte4Vec", "Byte4Opt", "BytesOpt",
            "Byte4OptVec", "BytesVec", "Table0", "Table1", "Table2", "Table3",
            "Outer"} |->
        CASE n = "Byte4"       -> Node("Array", "byte", 4, 1, 4, <<>>, <<>>)
          [] n = "Pair"        -> Node("Struct", "", 0, 0, 8, <<"Byte4", "Byte4">>, <<4, 4>>)
          [] n = "Rec"         -> Node("Struct", "", 0, 0, 12, <<"Byte4", "Pair">>, <<4, 8>>)
          [] n = "Bytes"       -> Node("FixVec", "byte", 0, 1, 0, <<>>, <<>>)
          [] n = "Byte4Vec"    -> Node("FixVec", "Byte4", 0, 4, 0, <<>>, <<>>)
          [] n = "Byte4Opt"    -> Node("Option", "Byte4", 0, 0, 0, <<>>, <<>>)
          [] n = "BytesOpt"    -> Node("Option", "Bytes", 0, 0, 0, <<>>, <<>>)
          [] n = "Byte4OptVec" -> Node("DynVec", "Byte4Opt", 0, 0, 0, <<>>, <<>>)
          [] n = "BytesVec"    -> Node("DynVec", "Bytes", 0, 0, 0, <<>>, <<>>)
          [] n = "Table0"      -> Node("Table", "", 0, 0, 0, <<>>, <<>>)
          [] n = "Table1"      -> Node("Table", "", 0, 0, 0, <<"BytesOpt">>, <<>>)
          [] n = "Table2"      -> Node("Table", "", 0, 0, 0, <<"Byte4Opt", "Byte4Opt">>, <<>>)
          [] n = "Table3"      -> Node("Table", "", 0, 0, 0,
                                       <<"Byte4Opt", "Byte4Opt", "Byte4Opt">>, <<>>)
          [] n = "Outer"       -> Node("Table", "", 0, 0, 0, <<"Table0">>, <<>>)]

TypeNames == DOMAIN Schema

KindOf(t) == Schema[t].kind

DynVecTypes == {t \in TypeNames : KindOf(t) = "DynVec"}

TableTypes == {t \in TypeNames : KindOf(t) = "Table"}

FixVecTypes == {t \in TypeNames : KindOf(t) = "FixVec"}

----------------------------------------------------------------------------
(* <T>FromSlice, per kind.                                                 *)

RECURSIVE FromSlice(_, _, _)

OptionFromSlice(struct_name, s, compat) ==
    IF Len(s) = 0
    THEN Ok(s)
    ELSE LET r == FromSlice(Schema[struct_name].typ, s, compat)
         IN  IF IsOk(r) THEN Ok(s) ELSE Propagate(r)

ArrayFromSlice(struct_name, s, compat) ==
    LET sliceLen == Len(s)
    IN  IF sliceLen # Schema[struct_name].total_size
        THEN Err(ErrMsg("TotalSizeNotMatch", struct_name, "!="))
        ELSE Ok(s)

StructFromSlice(struct_name, s, compat) ==
    LET sliceLen == Len(s)
    IN  IF sliceLen # Schema[struct_name].total_size
        THEN Err(ErrMsg("TotalSizeNotMatch", struct_name, "!="))
        ELSE Ok(s)

\* sliceLen != int(HeaderSizeUint) + int(item_size*itemCount), the product in uint32
FixVecSizeDiffers(item_size, itemCount, sliceLen) ==
    LET p == MulU32(item_size, itemCount)
    IN  ~(p[1] < 32768 /\ sliceLen - HeaderSizeUint = p[1] * 65536 + p[2])

FixVecFromSlice(struct_name, s, compat) ==
    LET sliceLen == Len(s)
        item_size == Schema[struct_name].item_size
    IN  IF sliceLen < HeaderSizeUint
        THEN Err(ErrMsg("HeaderIsBroken", struct_name, "<"))
        ELSE LET itemCount == unpackNumber(s)
             IN  IF itemCount = 0
                 THEN IF sliceLen # HeaderSizeUint
                      THEN Err(ErrMsg("TotalSizeNotMatch", struct_name, "!="))
                      ELSE Ok(s)
                 ELSE IF FixVecSizeDiffers(item_size, itemCount, sliceLen)
                      THEN Err(ErrMsg("TotalSizeNotMatch", struct_name, "!="))
                      ELSE Ok(s)

\* Faulty variant of the size check: only a slice shorter than declared fails.
TotalSizeDiffersOnlyShort(sliceLen, totalSize) == sliceLen < totalSize

\* Number(sliceLen) != totalSize
TotalSizeDiffers(sliceLen, totalSize) == sliceLen # totalSize

\* offsetFirst%4 != 0 || uint32(offsetFirst) < HeaderSizeUint*2
\* Faulty variant: the first offset is only compared with HeaderSizeUint*2.
OffsetFirstBrokenAnyAlign(offsetFirst) ==
    offsetFirst < HeaderSizeUint * 2

OffsetFirstBroken(offsetFirst) ==
    offsetFirst % 4 # 0 \/ offsetFirst < HeaderSizeUint * 2

\* offsets[i] = uint32(unpackNumber(slice[HeaderSizeUint:][4*i:])) for i < count,
\* then offsets = append(offsets, uint32(totalSize))
ReadOffsets(s, count, totalSize) ==
    [i \in 1..count |->
        unpackNumber(SliceFrom(SliceFrom(s, HeaderSizeUint), 4 * (i - 1)))]
    \o << totalSize >>

\* for i := 0; i < len(offsets); i++ { if i&1 != 0 && offsets[i-1] > offsets[i] {...} }
OffsetsNotMatch(offsets) ==
    \E i \in 0..(Len(offsets) - 1) :
        i % 2 # 0 /\ At(offsets, i - 1) > At(offsets, i)

\* The indices i of the DynVec decode loop whose body runs: i&1 != 0.
DecodedAt(i) == i % 2 # 0

\* The nested decode loop of the DynVec decoder: the first i (in loop order)
\* whose sub-slice expression panics or whose inner decoder fails ends the call.
DynVecVerify(struct_name, s, compat, offsets) ==
    LET inner_type == Schema[struct_name].typ
        start(i) == At(offsets, i - 1)
        end(i)   == At(offsets, i)
        fails(i) == \/ ~InBounds(s, start(i), end(i))
                    \/ ~IsOk(FromSlice(inner_type, Slice(s, start(i), end(i)), compat))
        bad == {i \in 0..(Len(offsets) - 1) : DecodedAt(i) /\ fails(i)}
    IN  IF bad = {}
        THEN Ok(s)
        ELSE LET i == Min(bad)
             IN  IF ~InBounds(s, start(i), end(i))
                 THEN Panic
                 ELSE Propagate(FromSlice(inner_type, Slice(s, start(i), end(i)), compat))

DynVecFromSlice(struct_name, s, compat) ==
    LET sliceLen == Len(s)
    IN  IF sliceLen < HeaderSizeUint
        THEN Err(ErrMsg("HeaderIsBroken", struct_name, "<"))
        ELSE
        LET totalSize == unpackNumber(s)
        IN  IF TotalSizeDiffers(sliceLen, totalSize)
            THEN Err(ErrMsg("TotalSizeNotMatch", struct_name, "!="))
            ELSE IF sliceLen = HeaderSizeUint
            THEN Ok(s)
            ELSE IF sliceLen < HeaderSizeUint * 2
            THEN Err(ErrMsg("TotalSizeNotMatch", struct_name, "<"))
            ELSE
            LET offsetFirst == unpackNumber(SliceFrom(s, HeaderSizeUint))
            IN  IF OffsetFirstBroken(offsetFirst)
                THEN Err(ErrMsg("OffsetsNotMatch", struct_name, "!= 0 <"))
                ELSE
                LET itemCount == offsetFirst \div 4 - 1
                    headerSize == HeaderSizeUint * (itemCount + 1)
                IN  IF sliceLen < headerSize
                    THEN Err(ErrMsg("HeaderIsBroken", struct_name, "<"))
                    ELSE
                    LET offsets == ReadOffsets(s, itemCount, totalSize)
                    IN  IF OffsetsNotMatch(offsets)
                        THEN Err(ErrMsg("OffsetsNotMatch", struct_name, ""))
                        ELSE DynVecVerify(struct_name, s, compat, offsets)

\* The decoder generated for a Table without fields (self.inner.is_empty()).
EmptyTableFromSlice(struct_name, s, compat) ==
    LET sliceLen == Len(s)
    IN  IF sliceLen < HeaderSizeUint
        THEN Err(ErrMsg("HeaderIsBroken", "", ""))
        ELSE
        LET totalSize == unpackNumber(s)
        IN  IF TotalSizeDiffers(sliceLen, totalSize)
            THEN Err(ErrMsg("TotalSizeNotMatch", "", ""))
            ELSE IF sliceLen > HeaderSizeUint /\ ~compat
            THEN Err(ErrMsg("FieldCountNotMatch", "", ""))
            ELSE Ok(s)

\* Faulty variant: the flag is read the wrong way round.
FieldCountNotMatchSwapped(fieldCount, field_count, compat) ==
    \/ fieldCount < field_count
    \/ compat /\ fieldCount > field_count

\* Faulty variant of the field-count check: the compatible flag is ignored.
FieldCountNotMatchStrict(fieldCount, field_count, compat) ==
    fieldCount # field_count

\* fieldCount < field_count, or !compatible && fieldCount > field_count
FieldCountNotMatch(fieldCount, field_count, compat) ==
    \/ fieldCount < field_count
    \/ ~compat /\ fieldCount > field_count

\* verify_fields: one `slice[offsets[i]:offsets[i+1]]` decode per declared field,
\* in field order; the first that panics or fails ends the call.  (The emitted
\* text repeats `_, err :=` per field; it is read as the sequence of decodes
\* and error returns it spells out.)
VerifyFields(struct_name, s, compat, offsets) ==
    LET inner == Schema[struct_name].inner
        start(i) == At(offsets, i)
        end(i)   == At(offsets, i + 1)
        fails(i) == \/ ~InBounds(s, start(i), end(i))
                    \/ ~IsOk(FromSlice(At(inner, i), Slice(s, start(i), end(i)), compat))
        bad == {i \in 0..(Len(inner) - 1) : fails(i)}
    IN  IF bad = {}
        THEN Ok(s)
        ELSE LET i == Min(bad)
             IN  IF ~InBounds(s, start(i), end(i))
                 THEN Panic
                 ELSE Propagate(FromSlice(At(inner, i), Slice(s, start(i), end(i)), compat))

TableFromSlice(struct_name, s, compat) ==
    LET sliceLen == Len(s)
        field_count == Len(Schema[struct_name].inner)
    IN  IF field_count = 0
        THEN EmptyTableFromSlice(struct_name, s, compat)
        ELSE IF sliceLen < HeaderSizeUint
        THEN Err(ErrMsg("HeaderIsBroken", struct_name, "<"))
        ELSE
        LET totalSize == unpackNumber(s)
        IN  IF TotalSizeDiffers(sliceLen, totalSize)
            THEN Err(ErrMsg("TotalSizeNotMatch", struct_name, "!="))
            ELSE IF sliceLen = HeaderSizeUint /\ field_count = 0
            THEN Ok(s)
            ELSE IF sliceLen < HeaderSizeUint * 2
            THEN Err(ErrMsg("TotalSizeNotMatch", struct_name, "<"))
            ELSE
            LET offsetFirst == unpackNumber(SliceFrom(s, HeaderSizeUint))
            IN  IF OffsetFirstBroken(offsetFirst)
                THEN Err(ErrMsg("OffsetsNotMatch", struct_name, "!= 0 <"))
                ELSE
                LET fieldCount == offsetFirst \div 4 - 1
                    headerSize == HeaderSizeUint * (fieldCount + 1)
                IN  IF FieldCountNotMatch(fieldCount, field_count, compat)
                    THEN Err(ErrMsg("FieldCountNotMatch", "", ""))
                    ELSE IF sliceLen < headerSize
                    THEN Err(ErrMsg("HeaderIsBroken", struct_name, "<"))
                    ELSE
                    LET offsets == ReadOffsets(s, field_count, totalSize)
                    IN  IF OffsetsNotMatch(offsets)
                        THEN Err(ErrMsg("OffsetsNotMatch", "", ""))
                        ELSE VerifyFields(struct_name, s, compat, offsets)

FromSlice(t, s, compat) ==
    CASE KindOf(t) = "Option" -> OptionFromSlice(t, s, compat)
      [] KindOf(t) = "Array"  -> ArrayFromSlice(t, s, compat)
      [] KindOf(t) = "Struct" -> StructFromSlice(t, s, compat)
      [] KindOf(t) = "FixVec" -> FixVecFromSlice(t, s, compat)
      [] KindOf(t) = "DynVec" -> DynVecFromSlice(t, s, compat)
      [] KindOf(t) = "Table"  -> TableFromSlice(t, s, compat)

----------------------------------------------------------------------------
(* New<T>: the encoders of DynVec and Table.  The children are the         *)
(* AsSlice() bytes of the arguments, in order.  The uint32 sums stay far   *)
(* below 2^32 for the children the model draws.                            *)

RECURSIVE SumLen(_)
SumLen(ss) == IF ss = <<>> THEN 0 ELSE Len(Head(ss)) + SumLen(Tail(ss))

\* Faulty variant of the offset loop: item i's own length is added, not item i-1's.
RECURSIVE NewDynVecOffsetOwnLen(_, _)
NewDynVecOffsetOwnLen(v, i) ==
    IF i = 0
    THEN HeaderSizeUint * (Len(v) + 1)
    ELSE NewDynVecOffsetOwnLen(v, i - 1) + Len(At(v, i))

\* offsets[0] = HeaderSizeUint*uint32(itemCount+1);
\* offsets[i] = offsets[i-1] + uint32(len(vec[i-1].AsSlice()))
RECURSIVE NewDynVecOffset(_, _)
NewDynVecOffset(v, i) ==
    IF i = 0
    THEN HeaderSizeUint * (Len(v) + 1)
    ELSE NewDynVecOffset(v, i - 1) + Len(At(v, i - 1))

NewDynVecOffsets(v) == [i \in 1..Len(v) |-> NewDynVecOffset(v, i - 1)]

\* What NewDynVec writes for an empty vec: size := packNumber(Number(itemCount))
NewDynVecEmpty(itemCount) == packNumber(itemCount)

NewDynVec(v) ==
    LET itemCount == Len(v)
    IN  IF itemCount = 0
        THEN NewDynVecEmpty(itemCount)
        ELSE LET totalSize == HeaderSizeUint * (itemCount + 1)
                              + SumLen(SubSeq(v, 1, itemCount - 1))
                              + Len(At(v, itemCount - 1))
                 offsets == NewDynVecOffsets(v)
             IN  packNumber(totalSize)
                 \o Concat([i \in 1..itemCount |-> packNumber(offsets[i])])
                 \o Concat(v)

\* fields_offset: offsets = append(offsets, totalSize); totalSize += len(f.AsSlice())
NewTableOffsets(fields) ==
    [i \in 1..Len(fields) |->
        HeaderSizeUint * (Len(fields) + 1) + SumLen(SubSeq(fields, 1, i - 1))]

NewTable(fields) ==
    IF Len(fields) = 0
    THEN packNumber(HeaderSizeUint)
    ELSE LET field_count == Len(fields)
             totalSize == HeaderSizeUint * (field_count + 1) + SumLen(fields)
             offsets == NewTableOffsets(fields)
         IN  packNumber(totalSize)
             \o Concat([i \in 1..Len(offsets) |-> packNumber(offsets[i])])
             \o Concat(fields)

New(t, v) == IF KindOf(t) = "DynVec" THEN NewDynVec(v) ELSE NewTable(v)

----------------------------------------------------------------------------
(* Accessors.  A uint result is [panic, n]; n < 0 stands for the wrapped   *)
(* unsigned value (0 - 1 as a Go uint).                                    *)

UintOk(n) == [panic |-> FALSE, n |-> n]

UintPanic == [panic |-> TRUE, n |-> 0]

\* ItemCount() of a DynVec and FieldCount() of a Table (the same statements).
ItemCount(inner) ==
    IF Len(inner) < HeaderSizeUint
    THEN UintPanic
    ELSE IF unpackNumber(inner) = HeaderSizeUint
    THEN UintOk(0)
    ELSE IF Len(inner) < HeaderSizeUint * 2
    THEN UintPanic
    ELSE UintOk(unpackNumber(SliceFrom(inner, HeaderSizeUint)) \div 4 - 1)

\* index < s.Len(), both uint
IndexBelow(i, count) == count.n < 0 \/ i < count.n

\* itemOffsets() / FieldOffsets(): the whole 4-byte words after the first one.
itemOffsets(inner) ==
    LET dataSize == (Len(inner) - HeaderSizeUint) - ((Len(inner) - HeaderSizeUint) % 4)
        cap == dataSize \div 4
    IN  [k \in 1..cap |-> Slice(inner, HeaderSizeUint + 4 * (k - 1), HeaderSizeUint + 4 * k)]

DynVecGet(inner, i) ==
    LET count == ItemCount(inner)
    IN  IF count.panic THEN Panic
        ELSE IF ~IndexBelow(i, count) THEN Nil
        ELSE
        LET offsets == itemOffsets(inner)
        IN  IF i >= Len(offsets) THEN Panic
            ELSE
            LET start == unpackNumber(At(offsets, i))
            IN  IF i = count.n - 1
                THEN IF start <= Len(inner) THEN Ok(SliceFrom(inner, start)) ELSE Panic
                ELSE IF i + 1 >= Len(offsets) THEN Panic
                ELSE LET end == unpackNumber(At(offsets, i + 1))
                     IN  IF InBounds(inner, start, end)
                         THEN Ok(Slice(inner, start, end))
                         ELSE Panic

FixVecItemCount(inner) ==
    IF Len(inner) < HeaderSizeUint THEN UintPanic ELSE UintOk(unpackNumber(inner))

\* TotalSize() of a FixVec: uint(HeaderSizeUint) * (s.ItemCount()+1).
FixVecTotalSize(inner) ==
    LET count == FixVecItemCount(inner)
    IN  IF count.panic THEN UintPanic ELSE UintOk(HeaderSizeUint * (count.n + 1))

FixVecGet(struct_name, inner, i) ==
    LET item_size == Schema[struct_name].item_size
        count == FixVecItemCount(inner)
    IN  IF count.panic THEN Panic
        ELSE IF ~IndexBelow(i, count) THEN Nil
        ELSE LET start == HeaderSizeUint + item_size * i
                 end == start + item_size
             IN  IF InBounds(inner, start, end)
                 THEN Ok(Slice(inner, start, end))
                 ELSE Panic

\* hasExtraFields(): field_count != s.FieldCount()
hasExtraFields(field_count, count) == field_count # count.n

\* CountExtraFields(): s.FieldCount() - field_count, in uint.
CountExtraFields(field_count, count) ==
    IF count.panic THEN UintPanic ELSE UintOk(count.n - field_count)

\* The index of the offset entry the getter of the last declared field starts at.
LastGetterStart(field_count) == 0

\* The getter generated for declared field i (zero-based) of a Table.  (The
\* getters of the fields before the last end in the FromSliceUnchecked
\* expression without `return`; they are read as returning it.)
TableGet(struct_name, inner, i) ==
    LET field_count == Len(Schema[struct_name].inner)
    IN  IF Len(inner) < HeaderSizeUint THEN Panic
        ELSE
        LET offsets == itemOffsets(inner)
        IN  IF i = field_count - 1
            THEN IF LastGetterStart(field_count) >= Len(offsets) THEN Panic
                 ELSE
                 LET start == unpackNumber(At(offsets, LastGetterStart(field_count)))
                     count == ItemCount(inner)
                 IN  IF count.panic THEN Panic
                     ELSE IF hasExtraFields(field_count, count)
                     THEN IF LastGetterStart(field_count) + 1 >= Len(offsets) THEN Panic
                          ELSE LET end == unpackNumber(
                                       At(offsets, LastGetterStart(field_count) + 1))
                               IN  IF InBounds(inner, start, end)
                                   THEN Ok(Slice(inner, start, end))
                                   ELSE Panic
                     ELSE IF start <= Len(inner)
                          THEN Ok(SliceFrom(inner, start))
                          ELSE Panic
            ELSE IF i + 1 >= Len(offsets) THEN Panic
                 ELSE LET start == unpackNumber(At(offsets, i))
                          end == unpackNumber(At(offsets, i + 1))
                      IN  IF InBounds(inner, start, end)
                          THEN Ok(Slice(inner, start, end))
                          ELSE Panic

\* The accessor indices the generated code offers on a view of type t.
Indices(t) ==
    CASE KindOf(t) = "Table" -> 0..(Len(Schema[t].inner) - 1)
      [] KindOf(t) \in {"DynVec", "FixVec"} -> 0..MaxIndex
      [] OTHER -> {}

\* Nth<i>() of an Array: s.inner[item_size*i : item_size*(i+1)].
ArrayRange(struct_name, i) ==
    LET item_size == Schema[struct_name].item_size
    IN  << item_size * i, item_size * (i + 1) >>

ArrayNth(struct_name, inner, i) ==
    LET r == ArrayRange(struct_name, i)
    IN  IF InBounds(inner, r[1], r[2]) THEN Ok(Slice(inner, r[1], r[2])) ELSE Panic

\* The fold over (field, field_size): offset after the first k fields.
RECURSIVE StructOffset(_, _)
StructOffset(field_size, k) ==
    IF k = 0 THEN 0 ELSE StructOffset(field_size, k - 1) + field_size[k]

\* Faulty variant of the fold step: start is taken after offset += s.
StructRangeLate(struct_name, i) ==
    LET field_size == Schema[struct_name].field_size
        offset == StructOffset(field_size, i) + field_size[i + 1]
    IN  << offset, offset >>

\* The getter of field i of a Struct: start = offset; offset += s; end = offset.
StructRange(struct_name, i) ==
    LET field_size == Schema[struct_name].field_size
        start == StructOffset(field_size, i)
        end == start + field_size[i + 1]
    IN  << start, end >>

StructGet(struct_name, inner, i) ==
    LET r == StructRange(struct_name, i)
    IN  IF InBounds(inner, r[1], r[2]) THEN Ok(Slice(inner, r[1], r[2])) ELSE Panic

\* The members the generator emits a getter for.
Members(t) ==
    IF KindOf(t) = "Array"
    THEN 0..(Schema[t].item_count - 1)
    ELSE 0..(Len(Schema[t].inner) - 1)

----------------------------------------------------------------------------
(* Inputs.  An input slice is fewer than 4 bytes, or a first word followed *)
(* by up to MaxWords words and 0..3 further bytes.  The first word is the  *)
(* slice length (a correct total size), the body length or the body length *)
(* in words (item counts), or a word whose product with 4 wraps in uint32. *)

Words == {0, 4, 8, 10, 12, 16}

BigWord == 64 * 16777216        \* bytes 00 00 00 40

Pads == {[i \in 1..k |-> 0] : k \in 0..3}

WordSeqs == UNION {[1..n -> Words] : n \in 0..MaxWords}

Bodies ==
    {Concat([i \in 1..Len(ws) |-> packNumber(ws[i])]) \o pad :
        ws \in WordSeqs, pad \in Pads}

FirstWords(body) ==
    {Len(body) + HeaderSizeUint, Len(body), Len(body) \div 4, BigWord}

Slices ==
    Pads \cup UNION {{packNumber(w) \o body : w \in FirstWords(body)} : body \in Bodies}

\* NewFixVec: packNumber(Number(len(vec))) followed by the items.
NewFixVec(v) == packNumber(Len(v)) \o Concat(v)

\* Encoded values handed to the constructors as children (the last Bytes
\* child is not a valid encoding: it stands for a FromSliceUnchecked value).
Children(t) ==
    CASE t = "Byte4"    -> {<<1, 2, 3, 4>>}
      [] t = "Byte4Opt" -> {<<>>, <<1, 2, 3, 4>>}
      [] t = "Bytes"    -> {NewFixVec(<<>>), NewFixVec(<< <<7>> >>),
                            NewFixVec(<< <<1>>, <<2>> >>),
                            NewFixVec([i \in 1..6 |-> <<9>>]), <<5>>}
      [] t = "BytesOpt" -> {<<>>, NewFixVec(<<>>), NewFixVec(<< <<7>> >>)}
      [] t = "Table0"   -> {packNumber(HeaderSizeUint)}
      [] OTHER          -> {}

Vecs(t) ==
    IF KindOf(t) = "DynVec"
    THEN UNION {[1..n -> Children(Schema[t].typ)] : n \in 0..MaxItems}
    ELSE {v \in [1..Len(Schema[t].inner) -> UNION {Children(f) : f \in TypeNames}] :
            \A i \in DOMAIN v : v[i] \in Children(Schema[t].inner[i])}

----------------------------------------------------------------------------
(* The calls.                                                              *)

NoRet == [view |-> <<>>, err |-> NoErr, panic |-> FALSE]

InitSlice ==
    /\ typ \in TypeNames
    /\ slice \in Slices
    /\ compatible \in BOOLEAN
    /\ vec = <<>>
    /\ encoded = FALSE
    /\ pc = "input"

InitVec ==
    /\ typ \in DynVecTypes \cup TableTypes
    /\ vec \in Vecs(typ)
    /\ compatible \in BOOLEAN
    /\ slice = <<>>
    /\ encoded = FALSE
    /\ pc = "new"

Init ==
    /\ InitSlice \/ InitVec
    /\ ret = NoRet
    /\ index = 0
    /\ got = NoRet

NewDynVecCall ==
    /\ pc = "new"
    /\ KindOf(typ) = "DynVec"
    /\ slice' = NewDynVec(vec)
    /\ encoded' = TRUE
    /\ pc' = "input"
    /\ UNCHANGED <<typ, compatible, vec, ret, index, got>>

NewTableCall ==
    /\ pc = "new"
    /\ KindOf(typ) = "Table"
    /\ slice' = NewTable(vec)
    /\ encoded' = TRUE
    /\ pc' = "input"
    /\ UNCHANGED <<typ, compatible, vec, ret, index, got>>

FromSliceCall ==
    /\ pc = "input"
    /\ ret' = FromSlice(typ, slice, compatible)
    /\ pc' = "decoded"
    /\ UNCHANGED <<typ, slice, compatible, vec, encoded, index, got>>

\* Get(index) on the view a DynVec decoder returned.
DynVecGetCall ==
    /\ pc = "decoded"
    /\ IsOk(ret)
    /\ KindOf(typ) = "DynVec"
    /\ \E i \in Indices(typ) :
        /\ index' = i
        /\ got' = DynVecGet(ret.view[1], i)
    /\ pc' = "accessed"
    /\ UNCHANGED <<typ, slice, compatible, vec, encoded, ret>>

\* Get(index) on the view a FixVec decoder returned.
FixVecGetCall ==
    /\ pc = "decoded"
    /\ IsOk(ret)
    /\ KindOf(typ) = "FixVec"
    /\ \E i \in Indices(typ) :
        /\ index' = i
        /\ got' = FixVecGet(typ, ret.view[1], i)
    /\ pc' = "accessed"
    /\ UNCHANGED <<typ, slice, compatible, vec, encoded, ret>>

\* The getter of declared field `index` on the view a Table decoder returned.
TableGetCall ==
    /\ pc = "decoded"
    /\ IsOk(ret)
    /\ KindOf(typ) = "Table"
    /\ \E i \in Indices(typ) :
        /\ index' = i
        /\ got' = TableGet(typ, ret.view[1], i)
    /\ pc' = "accessed"
    /\ UNCHANGED <<typ, slice, compatible, vec, encoded, ret>>

\* Nth<index>() on the view an Array decoder returned.
ArrayNthCall ==
    /\ pc = "decoded"
    /\ IsOk(ret)
    /\ KindOf(typ) = "Array"
    /\ \E i \in Members(typ) :
        /\ index' = i
        /\ got' = ArrayNth(typ, ret.view[1], i)
    /\ pc' = "accessed"
    /\ UNCHANGED <<typ, slice, compatible, vec, encoded, ret>>

\* The getter of field `index` on the view a Struct decoder returned.
StructGetCall ==
    /\ pc = "decoded"
    /\ IsOk(ret)
    /\ KindOf(typ) = "Struct"
    /\ \E i \in Members(typ) :
        /\ index' = i
        /\ got' = StructGet(typ, ret.view[1], i)
    /\ pc' = "accessed"
    /\ UNCHANGED <<typ, slice, compatible, vec, encoded, ret>>

Next ==
    \/ ArrayNthCall
    \/ StructGetCall
    \/ NewDynVecCall
    \/ NewTableCall
    \/ FromSliceCall
    \/ DynVecGetCall
    \/ FixVecGetCall
    \/ TableGetCall

Spec == Init /\ [][Next]_vars

----------------------------------------------------------------------------
(* The wire format in the specification's words, used to state the claims. *)

\* The 4-byte little-endian header field at zero-based byte position p.
WordAt(s, p) == s[p + 1] + 256 * s[p + 2] + 65536 * s[p + 3] + 16777216 * s[p + 4]

Decoded == pc \in {"decoded", "accessed"}

DeclaredTotal(s) == WordAt(s, 0)

FirstOffset(s) == WordAt(s, 4)

ObservedCount(s) == FirstOffset(s) \div 4 - 1

DeclaredCount(t) == Len(Schema[t].inner)

\* Offset-table entry j (zero-based).
Entry(s, j) == WordAt(s, 4 * (j + 1))

\* The observed entries followed by the synthetic trailing offset.
OffsetTable(s) == [j \in 1..ObservedCount(s) |-> Entry(s, j - 1)] \o << DeclaredTotal(s) >>

PassesSizeAndFirstOffset(s) ==
    /\ Len(s) >= 8
    /\ DeclaredTotal(s) = Len(s)
    /\ FirstOffset(s) % 4 = 0
    /\ FirstOffset(s) >= 8

PassesHeaderChecks(t, s, compat) ==
    /\ PassesSizeAndFirstOffset(s)
    /\ FirstOffset(s) <= Len(s)
    /\ KindOf(t) = "Table" =>
        /\ ObservedCount(s) >= DeclaredCount(t)
        /\ ~compat => ObservedCount(s) = DeclaredCount(t)

----------------------------------------------------------------------------
(* Claims.                                                                 *)

\* C1: round trip of DynVec. For every sequence of n >= 0 children the inner
\* decoder accepts, the buffer NewDynVec builds is accepted by the DynVec
\* decoder for either value of compatible, the view has Len() = n and Get(i)
\* returns child i for every i < n.
C1_RoundTrip ==
    ( /\ encoded
      /\ KindOf(typ) = "DynVec"
      /\ \A i \in 1..Len(vec) : IsOk(FromSlice(Schema[typ].typ, vec[i], compatible)) )
    => /\ Decoded => /\ IsOk(ret)
                     /\ ItemCount(slice) = UintOk(Len(vec))
       /\ (pc = "accessed" /\ index < Len(vec)) => got = Ok(vec[index + 1])

\* C2: the DynVec and Table decoders are total. Every call returns a view and
\* no error, or an error and no view, and never indexes or sub-slices the
\* input outside its bounds.
C2_DecodeTotal ==
    (Decoded /\ KindOf(typ) \in {"DynVec", "Table"})
    => /\ ~ret.panic
       /\ \/ IsOk(ret) /\ ret.view = << slice >>
          \/ IsErr(ret) /\ ret.view = <<>>

\* C3: accessor safety. On every buffer the DynVec or Table decoder accepted,
\* Get(i) for i < Len() and every generated field getter stay in bounds.
C3_AccessorSafety ==
    ( /\ pc = "accessed"
      /\ KindOf(typ) \in {"DynVec", "Table"}
      /\ KindOf(typ) = "DynVec" => IndexBelow(index, ItemCount(slice)) )
    => ~got.panic

\* C4: offset monotonicity. A buffer that passes the header checks and whose
\* offset sequence (the item_count entries, then the declared total size) has
\* a decreasing adjacent pair is rejected with the not-monotonic
\* OffsetsNotMatch error by the DynVec and Table decoders.
C4_OffsetMonotonic ==
    ( /\ Decoded
      /\ KindOf(typ) \in {"DynVec", "Table"}
      /\ PassesHeaderChecks(typ, slice, compatible)
      /\ \E i \in 1..ObservedCount(slice) :
            OffsetTable(slice)[i] > OffsetTable(slice)[i + 1] )
    => /\ IsErr(ret)
       /\ ret.err.kind = "OffsetsNotMatch"
       /\ ret.err.detail = ""

\* C5: compatibility mode accepts one extra trailing field. A Table buffer with
\* n >= 1 declared fields, a total size equal to its length, n+1 offset entries
\* (the first 4*(n+2), non-decreasing, at most the length) and declared field
\* regions [offset_i, offset_i+1) their decoders accept is accepted with
\* compatible = true, whatever the extra field holds.
C5_CompatAccepts ==
    LET n == DeclaredCount(typ)
    IN  ( /\ Decoded
          /\ KindOf(typ) = "Table"
          /\ n >= 1
          /\ compatible
          /\ Len(slice) >= 4 * (n + 2)
          /\ DeclaredTotal(slice) = Len(slice)
          /\ FirstOffset(slice) = 4 * (n + 2)
          /\ \A j \in 0..n : Entry(slice, j) <= Len(slice)
          /\ \A j \in 0..(n - 1) : Entry(slice, j) <= Entry(slice, j + 1)
          /\ \A j \in 0..(n - 1) :
                IsOk(FromSlice(Schema[typ].inner[j + 1],
                               Slice(slice, Entry(slice, j), Entry(slice, j + 1)), TRUE)) )
        => IsOk(ret)

\* C6: table field getters. On an accepted Table buffer the getter of declared
\* field i returns the bytes [offset_table[i], offset_table[i+1]), the entry
\* after the last declared one being the buffer length when the buffer has
\* exactly the declared fields and the next offset entry when it has more
\* (stated for the buffers in which that range lies inside the buffer).
C6_FieldAccessor ==
    (pc = "accessed" /\ KindOf(typ) = "Table")
    => LET n == DeclaredCount(typ)
           ot(j) == IF j < n \/ ObservedCount(slice) # n
                    THEN Entry(slice, j)
                    ELSE Len(slice)
       IN  InBounds(slice, ot(index), ot(index + 1))
           => got = Ok(Slice(slice, ot(index), ot(index + 1)))

\* C8: FixVec size check. The FixVec decoder accepts a slice exactly when it
\* has at least 4 bytes and its length is 4 + item_size * item_count in exact
\* integers, item_count being the first word; any other slice of at least 4
\* bytes is rejected with TotalSizeNotMatch.
C8_FixVecSize ==
    (Decoded /\ KindOf(typ) = "FixVec")
    => LET item_size == Schema[typ].item_size
           exact == /\ Len(slice) >= 4
                    /\ (Len(slice) - 4) % item_size = 0
                    /\ (Len(slice) - 4) \div item_size = WordAt(slice, 0)
       IN  /\ IsOk(ret) <=> exact
           /\ (Len(slice) >= 4 /\ ~exact)
                => IsErr(ret) /\ ret.err.kind = "TotalSizeNotMatch"

\* The 4 little-endian bytes of a header field.
LittleEndian(n) ==
    << n % 256, (n \div 256) % 256, (n \div 65536) % 256, (n \div 16777216) % 256 >>

\* offset_0 = 4*(n+1), offset_i = offset_(i-1) + len(child_(i-1)); i is zero-based.
RECURSIVE LayoutOffset(_, _)
LayoutOffset(children, i) ==
    IF i = 0
    THEN 4 * (Len(children) + 1)
    ELSE LayoutOffset(children, i - 1) + Len(children[i])

\* C7: wire layout. For n >= 1 children New<T> of a DynVec or a Table writes
\* total, offset_0 .. offset_(n-1), child_0 .. child_(n-1), every header field
\* 4 little-endian bytes, offset_0 = 4*(n+1), offset_i = offset_(i-1) +
\* len(child_(i-1)), total = offset_(n-1) + len(child_(n-1)) = the buffer length.
C7_WireLayout ==
    (encoded /\ Len(vec) >= 1)
    => LET n == Len(vec)
           off(i) == LayoutOffset(vec, i)
           total == off(n - 1) + Len(vec[n])
       IN  /\ Len(slice) = total
           /\ Slice(slice, 0, 4) = LittleEndian(total)
           /\ \A i \in 0..(n - 1) :
                /\ Slice(slice, 4 + 4 * i, 8 + 4 * i) = LittleEndian(off(i))
                /\ Slice(slice, off(i), off(i) + Len(vec[i + 1])) = vec[i + 1]

\* Children of lengths 6 and 10: total 28, offsets 12 and 18.
C7_Witness ==
    /\ encoded
    /\ KindOf(typ) = "DynVec"
    /\ Len(vec) = 2
    /\ Len(vec[1]) = 6
    /\ Len(vec[2]) = 10
    /\ Len(slice) = 28
    /\ Slice(slice, 0, 12) = <<28, 0, 0, 0, 12, 0, 0, 0, 18, 0, 0, 0>>

\* The decoder's own field-count check fails: observed < declared, or
\* observed > declared in strict mode.
OwnCountMismatch(t, s, compat) ==
    \/ ObservedCount(s) < DeclaredCount(t)
    \/ ObservedCount(s) > DeclaredCount(t) /\ ~compat

\* The sub-slice bounds the Table decoder hands to declared field j (zero-based).
FieldStart(s, j) == Entry(s, j)

FieldEnd(t, s, j) == IF j = DeclaredCount(t) - 1 THEN Len(s) ELSE Entry(s, j + 1)

\* C9 as stated: on a slice that passes the size and first-offset checks the
\* Table decoder returns FieldCountNotMatch when observed < declared, or
\* observed > declared with compatible = false, and never otherwise.
C9_Original ==
    (Decoded /\ KindOf(typ) = "Table" /\ PassesSizeAndFirstOffset(slice))
    => /\ OwnCountMismatch(typ, slice, compatible)
            => IsErr(ret) /\ ret.err.kind = "FieldCountNotMatch"
       /\ ~OwnCountMismatch(typ, slice, compatible)
            => ret.err.kind # "FieldCountNotMatch"

\* C9 (amended): on a slice that passes the size and first-offset checks the
\* Table decoder returns FieldCountNotMatch when observed < declared, or
\* observed > declared with compatible = false; otherwise it returns
\* FieldCountNotMatch only when the decoder of a declared field returned that
\* error for the field's sub-slice.
C9_FieldCountRule ==
    (Decoded /\ KindOf(typ) = "Table" /\ PassesSizeAndFirstOffset(slice))
    => /\ OwnCountMismatch(typ, slice, compatible)
            => IsErr(ret) /\ ret.err.kind = "FieldCountNotMatch"
       /\ (~OwnCountMismatch(typ, slice, compatible) /\ ret.err.kind = "FieldCountNotMatch")
            => \E j \in 0..(DeclaredCount(typ) - 1) :
                /\ InBounds(slice, FieldStart(slice, j), FieldEnd(typ, slice, j))
                /\ FromSlice(Schema[typ].inner[j + 1],
                             Slice(slice, FieldStart(slice, j), FieldEnd(typ, slice, j)),
                             compatible) = ret

\* Observed = declared, and a nested table's FieldCountNotMatch came back.
C9_Witness ==
    /\ pc = "decoded"
    /\ KindOf(typ) = "Table"
    /\ PassesSizeAndFirstOffset(slice)
    /\ ObservedCount(slice) = DeclaredCount(typ)
    /\ ret.err.kind = "FieldCountNotMatch"

\* C10: size mismatch detection. Every slice of at least 4 bytes whose first
\* word differs from its length is rejected with TotalSizeNotMatch by every
\* DynVec and Table decoder, for either value of compatible.
C10_SizeMismatch ==
    ( /\ Decoded
      /\ KindOf(typ) \in {"DynVec", "Table"}
      /\ Len(slice) >= 4
      /\ DeclaredTotal(slice) # Len(slice) )
    => /\ IsErr(ret)
       /\ ret.view = <<>>
       /\ ret.err.kind = "TotalSizeNotMatch"

\* A zero-field table in compatible mode, longer than declared, is rejected.
C10_Witness ==
    /\ pc = "decoded"
    /\ typ = "Table0"
    /\ compatible
    /\ Len(slice) >= 8
    /\ DeclaredTotal(slice) < Len(slice)
    /\ ret.err.kind = "TotalSizeNotMatch"

\* The schema's size of member i (zero-based) of a fixed-size type.
MemberSize(t, i) ==
    IF KindOf(t) = "Array" THEN Schema[t].item_size ELSE Schema[t].field_size[i + 1]

\* The sum of the sizes of the members before member i.
RECURSIVE MemberOffset(_, _)
MemberOffset(t, i) ==
    IF i = 0 THEN 0 ELSE MemberOffset(t, i - 1) + MemberSize(t, i - 1)

\* The range the generated getter of member i takes.
MemberRange(t, i) ==
    IF KindOf(t) = "Array" THEN ArrayRange(t, i) ELSE StructRange(t, i)

\* C11: fixed-size kinds. An Array or Struct decoder accepts a slice exactly
\* when its length is the statically known total size, whatever compatible is;
\* the getter of member i takes [offset_i, offset_i + size_i), offset_i the sum
\* of the preceding sizes, so the ranges are consecutive from 0 to the total
\* size and every getter returns those bytes of an accepted buffer.
C11_FixedSize ==
    (Decoded /\ KindOf(typ) \in {"Array", "Struct"})
    => LET total == Schema[typ].total_size
           last == CHOOSE i \in Members(typ) : \A j \in Members(typ) : j <= i
       IN  /\ IsOk(ret) <=> Len(slice) = total
           /\ ~IsOk(ret) => IsErr(ret) /\ ret.err.kind = "TotalSizeNotMatch"
           /\ \A i \in Members(typ) :
                /\ MemberRange(typ, i) = << MemberOffset(typ, i),
                                           MemberOffset(typ, i) + MemberSize(typ, i) >>
                /\ i # last => MemberRange(typ, i)[2] = MemberRange(typ, i + 1)[1]
           /\ MemberRange(typ, 0)[1] = 0
           /\ MemberRange(typ, last)[2] = total
           /\ pc = "accessed"
                => got = Ok(Slice(slice, MemberOffset(typ, index),
                                  MemberOffset(typ, index) + MemberSize(typ, index)))

\* The second field (8 bytes at offset 4) of an accepted 12-byte struct was read.
C11_Witness ==
    /\ pc = "accessed"
    /\ typ = "Rec"
    /\ index = 1
    /\ IsOk(got)
    /\ got.view[1] = Slice(slice, 4, 12)

\* The offset-table entries of s that lie inside s.
ReadableEntries(s) ==
    {j \in 0..(ObservedCount(s) - 1) : 4 * (j + 2) <= Len(s)}

ItemResult(t, s, compat, i) ==
    LET offs == OffsetTable(s)
    IN  IF InBounds(s, offs[i], offs[i + 1])
        THEN FromSlice(Schema[t].typ, Slice(s, offs[i], offs[i + 1]), compat)
        ELSE Panic

\* C13: every vector item is validated. The DynVec decoder accepts a slice
\* only if the inner decoder accepts the sub-slice [offsets[i], offsets[i+1])
\* of every item i < item_count, and when the header is sound and the inner
\* decoder rejects some item, the DynVec decoder returns the inner error of
\* the first such item.
C13_EveryItemValidated ==
    /\ (Decoded /\ KindOf(typ) = "DynVec" /\ IsOk(ret) /\ Len(slice) > 4)
       => \A i \in 1..ObservedCount(slice) :
            IsOk(ItemResult(typ, slice, compatible, i))
    /\ ( /\ Decoded
         /\ KindOf(typ) = "DynVec"
         /\ PassesHeaderChecks(typ, slice, compatible)
         /\ \A i \in 1..ObservedCount(slice) :
              InBounds(slice, OffsetTable(slice)[i], OffsetTable(slice)[i + 1])
         /\ \E i \in 1..ObservedCount(slice) :
              IsErr(ItemResult(typ, slice, compatible, i)) )
       => LET first == Min({i \in 1..ObservedCount(slice) :
                               IsErr(ItemResult(typ, slice, compatible, i))})
          IN  ret = ItemResult(typ, slice, compatible, first)

\* C14: header well-formedness of accepted tables. Every buffer longer than 4
\* bytes that a Table decoder accepts (the zero-field decoder with compatible =
\* TRUE included) has at least 8 bytes and a first offset-table entry that is
\* a multiple of 4, at least 8 and at most the length, so that FieldCount()
\* and CountExtraFields() neither read out of bounds nor wrap around and
\* FieldCount() is at least the declared field count.
C14_TableHeader ==
    (Decoded /\ KindOf(typ) = "Table" /\ IsOk(ret) /\ Len(slice) > 4)
    => /\ Len(slice) >= 8
       /\ FirstOffset(slice) % 4 = 0
       /\ FirstOffset(slice) >= 8
       /\ FirstOffset(slice) <= Len(slice)
       /\ ~ItemCount(slice).panic
       /\ ItemCount(slice).n >= DeclaredCount(typ)
       /\ CountExtraFields(DeclaredCount(typ), ItemCount(slice)).n >= 0

\* The decoder returned the error the generated code names HeaderIsBroken.
HeaderTooShort(r) == IsErr(r) /\ r.err.kind = "HeaderIsBroken"

\* C15: HeaderTooShort classification. The DynVec and Table decoders return
\* the header-too-short error for a slice shorter than 4 bytes, for a slice of
\* 5, 6 or 7 bytes whose declared total size is its length, and for a slice
\* whose first offset (a multiple of 4, at least 8) is beyond its length.
C15_HeaderTooShort ==
    (Decoded /\ KindOf(typ) \in {"DynVec", "Table"})
    => /\ Len(slice) < 4 => HeaderTooShort(ret)
       /\ (Len(slice) \in 5..7 /\ DeclaredTotal(slice) = Len(slice))
          => HeaderTooShort(ret)
       /\ (PassesSizeAndFirstOffset(slice) /\ FirstOffset(slice) > Len(slice))
          => HeaderTooShort(ret)

\* C16: compatibility mode only widens acceptance. Whatever the type, a
\* slice the decoder accepts with compatible = FALSE is accepted with
\* compatible = TRUE too, as a view over the same bytes.
C16_CompatWidens ==
    (Decoded /\ ~compatible /\ IsOk(ret))
    => /\ ret = Ok(slice)
       /\ FromSlice(typ, slice, TRUE) = ret

\* A table holding a nested table was accepted in strict mode.
C16_Witness ==
    /\ Decoded
    /\ ~compatible
    /\ IsOk(ret)
    /\ typ = "Outer"
    /\ Len(slice) = 12
    /\ IsOk(FromSlice("Table0", Slice(slice, 8, 12), FALSE))
    /\ IsOk(FromSlice(typ, slice, TRUE))

\* C17: the TotalSize accessor of a FixVec. On every buffer a FixVec decoder
\* accepts, whatever the item size, TotalSize() is the buffer's length, which
\* is 4 + item_size * ItemCount().  (A count above the length already differs;
\* TotalSize() is evaluated for the others.)
C17_FixVecTotalSize ==
    (Decoded /\ KindOf(typ) = "FixVec" /\ IsOk(ret))
    => /\ ~FixVecItemCount(slice).panic
       /\ FixVecItemCount(slice).n <= Len(slice)
       /\ FixVecTotalSize(slice) = UintOk(Len(slice))
       /\ Len(slice) = 4 + Schema[typ].item_size * FixVecItemCount(slice).n

====
